---- MODULE Spec2Model ----
(***************************************************************************)
(* Supervision state machine of instancecontrol.Controller: Start, Stop,   *)
(* GetState and the watch goroutine, over a key-value store of             *)
(* InstanceRecords and a table of OS processes.                            *)
(*                                                                         *)
(* Every caller (a goroutine calling Start/Stop/GetState) and every watch  *)
(* goroutine advances one store operation, one OS operation or one clock   *)
(* reading at a time, so that the interleavings the Go scheduler allows    *)
(* are the interleavings of the model.                                     *)
(*                                                                         *)
(* Time is counted in units of the poll interval of Stop (200ms).  The     *)
(* zero time.Time is 0 and the clock starts at 1.                          *)
(***************************************************************************)
EXTENDS Integers, FiniteSets, Sequences, TLC

VARIABLES store, procs, watch, watchLock, call, now, stopped,
          useAbsPaths, defaultCmd, dbUp, cwdUp, lost, rt

vars == <<store, procs, watch, watchLock, call, now, stopped,
          useAbsPaths, defaultCmd, dbUp, cwdUp, lost, rt>>

(* ------------------------------ bounds -------------------------------- *)

MaxPid == 2        \* processes spawned in one behaviour
MaxClock == 4      \* last clock value
GracePeriod == 1   \* c.gracePeriod, in poll intervals
PollInterval == 1  \* time.Sleep(200 * time.Millisecond): the unit of time

Keys == {"/w/a", "/w/b"}    \* the absolute paths of the instances
OneKey == {"/w/a"}
RelPaths == {"a", "./a", "b"}   \* other spellings, with working directory /w
Paths == Keys \cup RelPaths
Pids == 1..MaxPid
SeqCallers == {1}           \* one client goroutine
ConcCallers == {1, 2}       \* two client goroutines
Cmds == {"none", "run", "bad"}   \* launchCmd: empty, spawnable, not spawnable

(* ------------------------------ records ------------------------------- *)

StateUnknown == "unknown"
StateStarting == "starting"
StateRunning == "running"
StateStopping == "stopping"
StateStopped == "stopped"
StateFailed == "failed"

NoRec == [state |-> "absent"]

\* InstanceRecord{}: the zero value of the struct
InstanceRecord ==
  [state |-> "", pid |-> 0, started_at |-> 0, stopped_at |-> 0,
   updated_at |-> 0, last_error |-> ""]

(* ------------------------------- store -------------------------------- *)

\* the path of an error result: filepath.Abs returns ("", err)
NoPath == ""

\* filepath.Abs with working directory /w, on the spellings of the model: an
\* absolute path is returned as it is; a relative one is joined to the
\* working directory, which is an error when os.Getwd fails
Abs(path) ==
  CASE path \in RelPaths /\ ~cwdUp -> NoPath
    [] path \in {"a", "./a"} -> "/w/a"
    [] path = "b" -> "/w/b"
    [] OTHER -> path

\* the target path used as the caller spelled it
AsGiven(targetPath) == targetPath

\* absPath, err := filepath.Abs(targetPath), first line of every operation;
\* NoPath is the error, on which the operation returns
AbsPath(targetPath) == Abs(targetPath)

\* formatDBKey without its constant prefix "instancecontrol:"; NoPath is its
\* error
formatDBKey(path) == IF useAbsPaths THEN Abs(path) ELSE path

\* db.Set(key, r): the value replaces the old one, or the store fails and
\* nothing is written
dbSet(s, key, r) == IF dbUp THEN [s EXCEPT ![key] = r] ELSE s

\* the error of db.Set discarded (_ = c.saveRecord(...))
SetErrorDiscarded == FALSE

\* the error of db.Set
SetFails == ~dbUp

\* db.Get(key): the value, or an error (key not found, store failure)
dbGet(s, key) == IF dbUp THEN s[key] ELSE NoRec

\* the error of saveRecord: that of formatDBKey, or that of db.Set
saveRecordErr(path) == formatDBKey(path) = NoPath \/ SetFails

\* saveRecord: on the error of formatDBKey nothing is written; otherwise
\* r.UpdatedAt is the clock reading t taken before db.Set
saveRecord(s, path, r, t) ==
  IF formatDBKey(path) = NoPath THEN s
  ELSE dbSet(s, formatDBKey(path), [r EXCEPT !.updated_at = t])

\* json.Marshal of an InstanceRecord: pid and last_error carry omitempty, so
\* a zero pid and an empty last_error are left out; the time.Time fields are
\* structs and are always written
\* a Marshal whose last_error field is never encoded
MarshalDropsError(r) ==
  [f \in {"state", "started_at", "stopped_at", "updated_at"}
          \cup (IF r.pid # 0 THEN {"pid"} ELSE {}) |-> r[f]]

Marshal(r) ==
  [f \in {"state", "started_at", "stopped_at", "updated_at"}
          \cup (IF r.pid # 0 THEN {"pid"} ELSE {})
          \cup (IF r.last_error # "" THEN {"last_error"} ELSE {}) |-> r[f]]

\* json.Unmarshal into the zero InstanceRecord: a field that is not in the
\* object keeps its zero value
Unmarshal(j) ==
  [f \in DOMAIN InstanceRecord |-> IF f \in DOMAIN j THEN j[f] ELSE InstanceRecord[f]]

\* the error of loadRecord: that of formatDBKey (db.Get's error is not one)
loadRecordErr(path) == formatDBKey(path) = NoPath

\* a loadRecord that returns the zero record when db.Get fails
loadRecordZeroOnError(s, path, t) ==
  IF loadRecordErr(path) \/ dbGet(s, formatDBKey(path)) = NoRec
    THEN InstanceRecord
    ELSE Unmarshal(Marshal(dbGet(s, formatDBKey(path))))

\* loadRecord: on the error of formatDBKey the zero record; a missing key
\* gives the synthetic unknown record with the clock reading t; a stored
\* value is marshalled and unmarshalled
loadRecord(s, path, t) ==
  IF loadRecordErr(path) THEN InstanceRecord
  ELSE IF dbGet(s, formatDBKey(path)) = NoRec
    THEN [InstanceRecord EXCEPT !.state = StateUnknown, !.updated_at = t]
    ELSE Unmarshal(Marshal(dbGet(s, formatDBKey(path))))

(* ------------------------------ processes ----------------------------- *)

\* kill(pid, 0): a running process and an exited, not yet reaped one (a
\* zombie) both answer; a reaped or never spawned pid does not
isPidAlive(pid) ==
  /\ pid > 0
  /\ pid \in Pids
  /\ procs[pid] \in {"running", "zombie_ok", "zombie_err"}

FreePids == {p \in Pids : procs[p] = "none"}
NextPid == CHOOSE p \in FreePids : \A q \in FreePids : p <= q

NoWatch == [pc |-> "none", key |-> "", err |-> "", t |-> 0]
NoRT == [pc |-> "off"]
Idle == [pc |-> "idle", op |-> "", target |-> "", key |-> "", cmd |-> "",
         rec |-> NoRec,
         pid |-> 0, t |-> 0, start |-> 0, deadline |-> 0, wake |-> 0,
         ret |-> "", branch |-> ""]

Init ==
  /\ store = [k \in Paths |-> NoRec]
  /\ procs = [p \in Pids |-> "none"]
  /\ watch = [p \in Pids |-> NoWatch]
  /\ watchLock = 0
  /\ call = [c \in ConcCallers |-> Idle]
  /\ now = 1
  /\ stopped = [k \in Keys |-> FALSE]
  /\ useAbsPaths = TRUE
  /\ defaultCmd = "none"
  /\ dbUp = TRUE
  /\ cwdUp = TRUE
  /\ lost = [k \in Keys |-> FALSE]
  /\ rt = NoRT

\* the caller is inside operation op at step pc
At(c, op, pc) == call[c].op = op /\ call[c].pc = pc

\* the operation returns: the caller is idle again and keeps, for the
\* observer, what it was called with and what it returned
Return(c, ret, branch, rec) ==
  [Idle EXCEPT !.op = call[c].op, !.key = call[c].key,
               !.ret = ret, !.branch = branch, !.rec = rec]

(* ------------------------- records that are written -------------------- *)

StartingRecord == [InstanceRecord EXCEPT !.state = StateStarting]

SpawnFailedRecord ==
  [InstanceRecord EXCEPT !.state = StateFailed, !.last_error = "spawn"]

\* a running record written without the pid
RunningRecordNoPid(pid, t) ==
  [InstanceRecord EXCEPT !.state = StateRunning, !.started_at = t]

RunningRecord(pid, t) ==
  [InstanceRecord EXCEPT !.state = StateRunning, !.pid = pid, !.started_at = t]

\* a stop that updates the loaded record in place
StoppedRecordKeepsError(rec, t) ==
  [rec EXCEPT !.state = StateStopped, !.pid = 0, !.stopped_at = t]

\* InstanceRecord{State: StateStopped, StoppedAt: time.Now().UTC()}: a fresh
\* record, nothing of the loaded record rec is kept
StoppedRecord(rec, t) ==
  [InstanceRecord EXCEPT !.state = StateStopped, !.stopped_at = t]

\* the record of watchProcess: failed with the error of cmd.Wait, or stopped
\* a terminal record that is stopped whatever cmd.Wait returned
ExitRecordAlwaysStopped(err, t) ==
  [InstanceRecord EXCEPT !.state = StateStopped, !.stopped_at = t,
                         !.updated_at = t]

ExitRecord(err, t) ==
  IF err # ""
    THEN [InstanceRecord EXCEPT !.state = StateFailed, !.last_error = err,
                                !.updated_at = t]
    ELSE [InstanceRecord EXCEPT !.state = StateStopped, !.stopped_at = t,
                                !.updated_at = t]

\* a rewrite that forgets the state, and one that forgets the pid
HealedRecordKeepsState(rec, t) == [rec EXCEPT !.pid = 0, !.updated_at = t]

HealedRecordKeepsPid(rec, t) ==
  [rec EXCEPT !.state = StateStopped, !.updated_at = t]

\* the rewrite of GetState
HealedRecord(rec, t) ==
  [rec EXCEPT !.state = StateStopped, !.pid = 0, !.updated_at = t]

(* ------------------------------ decisions ----------------------------- *)

\* the liveness test of Start turned around
StartIsNoopInverted(rec) == rec.pid # 0 /\ ~isPidAlive(rec.pid)

StartIsNoop(rec) == rec.pid # 0 /\ isPidAlive(rec.pid)
\* a command check that lets the empty command through
CommandNeverMissing(cmd) == FALSE

CommandMissing(cmd) == cmd = "none" /\ defaultCmd = "none"
\* Stop that does not probe the process
StopIsNoopPidOnly(rec) == rec.pid = 0

StopIsNoop(rec) == rec.pid = 0 \/ ~isPidAlive(rec.pid)
NeedsHeal(rec) == rec.pid # 0 /\ ~isPidAlive(rec.pid)
\* a deadline test that never gives up
BeforeDeadlineAlways(t, deadline) == TRUE

\* a deadline test that gives up one poll early
BeforeDeadline(t, deadline) == t < deadline

(* -------------------------------- Start ------------------------------- *)

\* a call that returns the error of filepath.Abs, with the record it returns
AbsFailed(op, rec) ==
  [Idle EXCEPT !.op = op, !.ret = "err", !.branch = "absfailed", !.rec = rec]

StartCall(c, k, cmd) ==
  /\ call[c].pc = "idle"
  /\ IF AbsPath(k) = NoPath
       THEN /\ call' = [call EXCEPT ![c] = AbsFailed("Start", NoRec)]
            /\ UNCHANGED <<stopped, lost>>
       ELSE /\ call' = [call EXCEPT ![c] =
                 [Idle EXCEPT !.pc = "load", !.op = "Start", !.target = k,
                              !.key = AbsPath(k), !.cmd = cmd]]
            /\ stopped' = [stopped EXCEPT ![AbsPath(k)] = FALSE]
            /\ lost' = [lost EXCEPT ![AbsPath(k)] = FALSE]
  /\ UNCHANGED <<store, procs, watch, watchLock, now, useAbsPaths, defaultCmd, cwdUp, dbUp, rt>>

\* rec, err := c.loadRecord(absPath)
StartLoad(c) ==
  /\ At(c, "Start", "load")
  /\ call' = [call EXCEPT ![c] =
       IF loadRecordErr(call[c].key) THEN Return(c, "err", "loadfailed", NoRec)
       ELSE [call[c] EXCEPT !.rec = loadRecord(store, call[c].key, now),
                            !.pc = "check"]]
  /\ UNCHANGED <<store, procs, watch, watchLock, now, stopped, useAbsPaths, defaultCmd, cwdUp, dbUp, lost, rt>>

\* the command Start runs: launchCmd, or c.defaultCmd when launchCmd is empty
LaunchCmd(cmd) == IF cmd = "none" THEN defaultCmd ELSE cmd

\* the pid test, the command test, the default command and
\* os.MkdirAll(absPath/logs), which returns its error before anything is
\* written
StartCheck(c, mkdirOk) ==
  /\ At(c, "Start", "check")
  /\ call' = [call EXCEPT ![c] =
       IF StartIsNoop(call[c].rec) THEN Return(c, "ok", "noop", NoRec)
       ELSE IF CommandMissing(call[c].cmd) THEN Return(c, "err", "nocmd", NoRec)
       ELSE IF ~mkdirOk THEN Return(c, "err", "mkdirfailed", NoRec)
       ELSE [call[c] EXCEPT !.pc = "clock", !.branch = "starting",
                            !.cmd = LaunchCmd(call[c].cmd)]]
  /\ UNCHANGED <<store, procs, watch, watchLock, now, stopped, useAbsPaths,
                 defaultCmd, cwdUp, dbUp, lost, rt>>

\* saveRecord, first half: time.Now() (with the time.Now() of its argument)
StartClock(c) ==
  /\ At(c, "Start", "clock")
  /\ call' = [call EXCEPT ![c].t = now, ![c].pc = "set"]
  /\ UNCHANGED <<store, procs, watch, watchLock, now, stopped, useAbsPaths, defaultCmd, cwdUp, dbUp, lost, rt>>

\* if err := c.saveRecord(absPath, InstanceRecord{State: StateStarting});
\* err != nil { return err }
StartSetStarting(c) ==
  /\ At(c, "Start", "set")
  /\ call[c].branch = "starting"
  /\ store' = saveRecord(store, call[c].key, StartingRecord, call[c].t)
  /\ call' = [call EXCEPT ![c] =
       IF saveRecordErr(call[c].key) THEN Return(c, "err", "savefailed", NoRec)
       ELSE [call[c] EXCEPT !.pc = "spawn", !.t = 0]]
  /\ UNCHANGED <<procs, watch, watchLock, now, stopped, useAbsPaths, defaultCmd, cwdUp, dbUp, lost, rt>>

\* cmd.Start(): a process with a fresh pid, or an error
StartSpawn(c) ==
  /\ At(c, "Start", "spawn")
  /\ IF call[c].cmd = "bad"
       THEN /\ call' = [call EXCEPT ![c].pc = "clock", ![c].branch = "failed"]
            /\ UNCHANGED procs
       ELSE /\ FreePids # {}
            /\ procs' = [procs EXCEPT ![NextPid] = "running"]
            /\ call' = [call EXCEPT ![c].pc = "clock", ![c].branch = "running",
                                    ![c].pid = NextPid]
  /\ UNCHANGED <<store, watch, watchLock, now, stopped, useAbsPaths, defaultCmd, cwdUp, dbUp, lost, rt>>

\* saveRecord(failed) and return err
StartSetFailed(c) ==
  /\ At(c, "Start", "set")
  /\ call[c].branch = "failed"
  /\ store' = saveRecord(store, call[c].key, SpawnFailedRecord, call[c].t)
  /\ call' = [call EXCEPT ![c] = Return(c, "err", "spawnfailed", NoRec)]
  /\ UNCHANGED <<procs, watch, watchLock, now, stopped, useAbsPaths, defaultCmd, cwdUp, dbUp, lost, rt>>

\* saveRecord(running, pid)
StartSetRunning(c) ==
  /\ At(c, "Start", "set")
  /\ call[c].branch = "running"
  /\ store' = saveRecord(store, call[c].key,
                         RunningRecord(call[c].pid, call[c].t), call[c].t)
  /\ call' = [call EXCEPT ![c].pc = "go", ![c].t = 0]
  /\ lost' = [lost EXCEPT ![call[c].key] = @ \/ saveRecordErr(call[c].key)]
  /\ UNCHANGED <<procs, watch, watchLock, now, stopped, useAbsPaths, defaultCmd, cwdUp, dbUp, rt>>

\* go c.watchProcess(...); return nil
StartGo(c) ==
  /\ At(c, "Start", "go")
  /\ watch' = [watch EXCEPT ![call[c].pid] =
                 [NoWatch EXCEPT !.pc = "lock", !.key = call[c].key]]
  /\ call' = [call EXCEPT ![c] = Return(c, "ok", "spawned", NoRec)]
  /\ UNCHANGED <<store, procs, watchLock, now, stopped, useAbsPaths, defaultCmd, cwdUp, dbUp, lost, rt>>

(* -------------------------------- Stop -------------------------------- *)

\* proc.Signal(SIGTERM): the process dies of the signal at once, or it
\* ignores or defers it and keeps running; a process that has exited already
\* is not changed
Signal(ps, pid, dies) ==
  IF ps[pid] = "running" /\ dies THEN [ps EXCEPT ![pid] = "zombie_err"] ELSE ps

\* proc.Kill(): SIGKILL cannot be ignored
Kill(ps, pid) ==
  IF ps[pid] = "running" THEN [ps EXCEPT ![pid] = "zombie_err"] ELSE ps

\* Stop begins with filepath.Abs(targetPath); its error is returned at once
StopCall(c, k) ==
  /\ call[c].pc = "idle"
  /\ IF AbsPath(k) = NoPath
       THEN /\ call' = [call EXCEPT ![c] = AbsFailed("Stop", NoRec)]
            /\ UNCHANGED lost
       ELSE /\ call' = [call EXCEPT ![c] =
                 [Idle EXCEPT !.pc = "load", !.op = "Stop", !.target = k,
                              !.key = AbsPath(k)]]
            /\ lost' = [lost EXCEPT ![AbsPath(k)] = FALSE]
  /\ UNCHANGED <<store, procs, watch, watchLock, now, stopped, useAbsPaths, defaultCmd, cwdUp, dbUp, rt>>

StopLoad(c) ==
  /\ At(c, "Stop", "load")
  /\ call' = [call EXCEPT ![c] =
       IF loadRecordErr(call[c].key) THEN Return(c, "err", "loadfailed", NoRec)
       ELSE [call[c] EXCEPT !.rec = loadRecord(store, call[c].key, now),
                            !.pc = "check"]]
  /\ UNCHANGED <<store, procs, watch, watchLock, now, stopped, useAbsPaths, defaultCmd, cwdUp, dbUp, lost, rt>>

\* if rec.PID == 0 || !isPidAlive(rec.PID)
StopCheck(c) ==
  /\ At(c, "Stop", "check")
  /\ call' = [call EXCEPT ![c] =
       IF StopIsNoop(call[c].rec)
         THEN [call[c] EXCEPT !.pc = "clock", !.branch = "noop"]
         ELSE [call[c] EXCEPT !.pc = "signal", !.pid = call[c].rec.pid]]
  /\ UNCHANGED <<store, procs, watch, watchLock, now, stopped, useAbsPaths, defaultCmd, cwdUp, dbUp, lost, rt>>

\* os.FindProcess (which cannot fail here), proc.Signal(SIGTERM) and
\* deadline := time.Now().Add(c.gracePeriod)
StopSignal(c, dies) ==
  /\ At(c, "Stop", "signal")
  /\ procs' = Signal(procs, call[c].pid, dies)
  /\ call' = [call EXCEPT ![c].pc = "loop", ![c].start = now,
                          ![c].deadline = now + GracePeriod]
  /\ UNCHANGED <<store, watch, watchLock, now, stopped, useAbsPaths, defaultCmd, cwdUp, dbUp, lost, rt>>

\* for time.Now().Before(deadline) { if !isPidAlive(pid) {...}; time.Sleep }
StopLoop(c) ==
  /\ At(c, "Stop", "loop")
  /\ call' = [call EXCEPT ![c] =
       IF BeforeDeadline(now, call[c].deadline)
         THEN IF ~isPidAlive(call[c].pid)
                THEN [call[c] EXCEPT !.pc = "clock", !.branch = "graceful"]
                ELSE [call[c] EXCEPT !.pc = "sleep", !.wake = now + PollInterval]
         ELSE [call[c] EXCEPT !.pc = "kill"]]
  /\ UNCHANGED <<store, procs, watch, watchLock, now, stopped, useAbsPaths, defaultCmd, cwdUp, dbUp, lost, rt>>

\* time.Sleep returns
StopWake(c) ==
  /\ At(c, "Stop", "sleep")
  /\ now >= call[c].wake
  /\ call' = [call EXCEPT ![c].pc = "loop", ![c].wake = 0]
  /\ UNCHANGED <<store, procs, watch, watchLock, now, stopped, useAbsPaths, defaultCmd, cwdUp, dbUp, lost, rt>>

\* _ = proc.Kill()
StopKill(c) ==
  /\ At(c, "Stop", "kill")
  /\ procs' = Kill(procs, call[c].pid)
  /\ call' = [call EXCEPT ![c].pc = "clock", ![c].branch = "killed"]
  /\ UNCHANGED <<store, watch, watchLock, now, stopped, useAbsPaths, defaultCmd, cwdUp, dbUp, lost, rt>>

StopClock(c) ==
  /\ At(c, "Stop", "clock")
  /\ call' = [call EXCEPT ![c].t = now, ![c].pc = "set"]
  /\ UNCHANGED <<store, procs, watch, watchLock, now, stopped, useAbsPaths, defaultCmd, cwdUp, dbUp, lost, rt>>

\* saveRecord(stopped) and return nil, on each of the three paths
StopSet(c) ==
  /\ At(c, "Stop", "set")
  /\ store' = saveRecord(store, call[c].key,
                         StoppedRecord(call[c].rec, call[c].t), call[c].t)
  /\ call' = [call EXCEPT ![c] =
                [Return(c, "ok", call[c].branch, NoRec) EXCEPT !.t = now]]
  /\ stopped' = [stopped EXCEPT ![call[c].key] =
                   @ \/ call[c].branch \in {"graceful", "killed"}]
  /\ lost' = [lost EXCEPT ![call[c].key] =
                @ \/ (/\ saveRecordErr(call[c].key)
                      /\ call[c].branch \in {"graceful", "killed"})]
  /\ UNCHANGED <<procs, watch, watchLock, now, useAbsPaths, defaultCmd, cwdUp, dbUp, rt>>

(* ------------------------------ GetState ------------------------------ *)

GetStateCall(c, k) ==
  /\ call[c].pc = "idle"
  /\ call' = [call EXCEPT ![c] =
       IF AbsPath(k) = NoPath THEN AbsFailed("GetState", InstanceRecord)
       ELSE [Idle EXCEPT !.pc = "load", !.op = "GetState", !.target = k,
                         !.key = AbsPath(k)]]
  /\ UNCHANGED <<store, procs, watch, watchLock, now, stopped, useAbsPaths, defaultCmd, cwdUp, dbUp, lost, rt>>

GetStateLoad(c) ==
  /\ At(c, "GetState", "load")
  /\ call' = [call EXCEPT ![c] =
       IF loadRecordErr(call[c].key)
         THEN Return(c, "err", "loadfailed", loadRecord(store, call[c].key, now))
       ELSE [call[c] EXCEPT !.rec = loadRecord(store, call[c].key, now),
                            !.pc = "check"]]
  /\ UNCHANGED <<store, procs, watch, watchLock, now, stopped, useAbsPaths, defaultCmd, cwdUp, dbUp, lost, rt>>

\* if rec.PID != 0 && !isPidAlive(rec.PID) { rewrite rec } else return rec
GetStateCheck(c) ==
  /\ At(c, "GetState", "check")
  /\ call' = [call EXCEPT ![c] =
       IF NeedsHeal(call[c].rec)
         THEN [call[c] EXCEPT !.pc = "clock", !.branch = "healed",
                              !.pid = call[c].rec.pid,
                              !.rec = HealedRecord(call[c].rec, now)]
         ELSE Return(c, "ok", "asis", call[c].rec)]
  /\ UNCHANGED <<store, procs, watch, watchLock, now, stopped, useAbsPaths, defaultCmd, cwdUp, dbUp, lost, rt>>

GetStateClock(c) ==
  /\ At(c, "GetState", "clock")
  /\ call' = [call EXCEPT ![c].t = now, ![c].pc = "set"]
  /\ UNCHANGED <<store, procs, watch, watchLock, now, stopped, useAbsPaths, defaultCmd, cwdUp, dbUp, lost, rt>>

\* _ = c.saveRecord(absPath, rec); return rec, nil
GetStateSet(c) ==
  /\ At(c, "GetState", "set")
  /\ store' = saveRecord(store, call[c].key, call[c].rec, call[c].t)
  /\ call' = [call EXCEPT ![c] = Return(c, "ok", "healed", call[c].rec)]
  /\ UNCHANGED <<procs, watch, watchLock, now, stopped, useAbsPaths, defaultCmd, cwdUp, dbUp, lost, rt>>

(* ----------------------------- watchProcess --------------------------- *)

\* c.watchLock.Lock()
CanLock(p) == watchLock = 0

WatchLock(p) ==
  /\ watch[p].pc = "lock"
  /\ CanLock(p)
  /\ watchLock' = p
  /\ watch' = [watch EXCEPT ![p].pc = "wait"]
  /\ UNCHANGED <<store, procs, call, now, stopped, useAbsPaths, defaultCmd, cwdUp, dbUp, lost, rt>>

\* the error of cmd.Wait() for an exit status
WaitError(st) == IF st = "zombie_err" THEN "wait" ELSE ""

\* err := cmd.Wait(): returns once the process has exited, and reaps it
WatchWait(p) ==
  /\ watch[p].pc = "wait"
  /\ procs[p] \in {"zombie_ok", "zombie_err"}
  /\ watch' = [watch EXCEPT ![p].pc = "clock", ![p].err = WaitError(procs[p])]
  /\ procs' = [procs EXCEPT ![p] = "reaped"]
  /\ UNCHANGED <<store, watchLock, call, now, stopped, useAbsPaths, defaultCmd, cwdUp, dbUp, lost, rt>>

\* the time.Now() of the record and of saveRecord
WatchClock(p) ==
  /\ watch[p].pc = "clock"
  /\ watch' = [watch EXCEPT ![p].pc = "set", ![p].t = now]
  /\ UNCHANGED <<store, procs, watchLock, call, now, stopped, useAbsPaths, defaultCmd, cwdUp, dbUp, lost, rt>>

\* c.saveRecord(absPath, rec), the files are closed, the lock is released
WatchSet(p) ==
  /\ watch[p].pc = "set"
  /\ store' = saveRecord(store, watch[p].key,
                         ExitRecord(watch[p].err, watch[p].t), watch[p].t)
  /\ watch' = [watch EXCEPT ![p].pc = "done", ![p].t = 0]
  /\ watchLock' = IF watchLock = p THEN 0 ELSE watchLock
  /\ lost' = [lost EXCEPT ![watch[p].key] = @ \/ saveRecordErr(watch[p].key)]
  /\ UNCHANGED <<procs, call, now, stopped, useAbsPaths, defaultCmd, cwdUp, dbUp, rt>>

(* ------------------------------ environment --------------------------- *)

\* the process exits by itself, with status 0 or not
ProcExit(p, st) ==
  /\ procs[p] = "running"
  /\ procs' = [procs EXCEPT ![p] = st]
  /\ UNCHANGED <<store, watch, watchLock, call, now, stopped, useAbsPaths, defaultCmd, cwdUp, dbUp, lost, rt>>

\* a Stop that has set its deadline and still polls
Polling(c) == call[c].op = "Stop" /\ call[c].pc \in {"loop", "sleep"}

\* the clock runs whatever the goroutines do; the last clock value is
\* MaxClock, or the deadline of a Stop that still polls then
Tick ==
  /\ \/ now < MaxClock
     \/ \E c \in ConcCallers : Polling(c) /\ now < call[c].deadline
  /\ now' = now + 1
  /\ UNCHANGED <<store, procs, watch, watchLock, call, stopped, useAbsPaths, defaultCmd, cwdUp, dbUp, lost, rt>>

\* the working directory of the program is removed: os.Getwd fails from
\* then on
CwdRemove ==
  /\ cwdUp
  /\ cwdUp' = FALSE
  /\ UNCHANGED <<store, procs, watch, watchLock, call, now, stopped,
                 useAbsPaths, defaultCmd, dbUp, lost, rt>>

\* the store stops working, and works again
DbFail ==
  /\ dbUp
  /\ dbUp' = FALSE
  /\ UNCHANGED <<store, procs, watch, watchLock, call, now, stopped,
                 useAbsPaths, defaultCmd, cwdUp, lost, rt>>

DbRecover ==
  /\ ~dbUp
  /\ dbUp' = TRUE
  /\ UNCHANGED <<store, procs, watch, watchLock, call, now, stopped,
                 useAbsPaths, defaultCmd, cwdUp, lost, rt>>

(* ---------------------------- specifications -------------------------- *)

StartSteps(c, K) ==
  \/ \E k \in K, cmd \in Cmds : StartCall(c, k, cmd)
  \/ StartLoad(c)
  \/ \E mkdirOk \in BOOLEAN : StartCheck(c, mkdirOk)
  \/ StartClock(c)
  \/ StartSetStarting(c)
  \/ StartSpawn(c)
  \/ StartSetFailed(c)
  \/ StartSetRunning(c)
  \/ StartGo(c)

StopSteps(c, K) ==
  \/ \E k \in K : StopCall(c, k)
  \/ StopLoad(c)
  \/ StopCheck(c)
  \/ \E dies \in BOOLEAN : StopSignal(c, dies)
  \/ StopLoop(c)
  \/ StopWake(c)
  \/ StopKill(c)
  \/ StopClock(c)
  \/ StopSet(c)

GetStateSteps(c, K) ==
  \/ \E k \in K : GetStateCall(c, k)
  \/ GetStateLoad(c)
  \/ GetStateCheck(c)
  \/ GetStateClock(c)
  \/ GetStateSet(c)

Watcher(p) ==
  \/ WatchLock(p)
  \/ WatchWait(p)
  \/ WatchClock(p)
  \/ WatchSet(p)

Exits == \E p \in Pids, st \in {"zombie_ok", "zombie_err"} : ProcExit(p, st)

\* one client goroutine, one instance: Start, Stop and GetState are called
\* one after the other, the watch goroutines and the processes run beside
Next ==
  \/ \E c \in SeqCallers : StartSteps(c, OneKey)
  \/ \E c \in SeqCallers : StopSteps(c, OneKey)
  \/ \E c \in SeqCallers : GetStateSteps(c, OneKey)
  \/ \E p \in Pids : Watcher(p)
  \/ Exits
  \/ Tick

Spec == Init /\ [][Next]_vars

\* two client goroutines that call Start for one instance, within one
\* reading of the clock
NextConc ==
  \/ \E c \in ConcCallers : StartSteps(c, OneKey)
  \/ \E p \in Pids : Watcher(p)
  \/ Exits

SpecConc == Init /\ [][NextConc]_vars

\* one client goroutine that starts two instances
NextTwo ==
  \/ \E c \in SeqCallers : StartSteps(c, Keys)
  \/ \E p \in Pids : Watcher(p)
  \/ Exits

SpecTwo == Init /\ [][NextTwo]_vars

\* one client goroutine that calls Start and GetState for one instance, with
\* a store that can fail and recover at any time, within one reading of the
\* clock
NextFail ==
  \/ \E c \in SeqCallers : StartSteps(c, OneKey)
  \/ \E c \in SeqCallers : GetStateSteps(c, OneKey)
  \/ \E p \in Pids : Watcher(p)
  \/ Exits
  \/ DbFail
  \/ DbRecover

SpecFail == Init /\ [][NextFail]_vars

\* the Go scheduler runs every goroutine that can run: a watch goroutine
\* that can take a step takes it.  Nothing makes a process exit.
FairTwo == SpecTwo /\ \A p \in Pids : WF_vars(Watcher(p))

(* ------------------------------ observers ----------------------------- *)

\* the callers that are inside Start with a process they have spawned
Spawners(p) ==
  {c \in ConcCallers : call[c].op = "Start" /\ call[c].pc # "idle" /\ call[c].pid = p}

\* the instance a process was spawned for
procKey(p) ==
  IF watch[p].pc # "none" THEN watch[p].key
  ELSE IF Spawners(p) # {} THEN call[CHOOSE c \in Spawners(p) : TRUE].key
  ELSE ""

\* the processes of an instance that are running
Running(k) == {p \in Pids : procs[p] = "running" /\ procKey(p) = k}

\* caller c takes a step
Steps(c) == call'[c] # call[c]

(* -------------------------------- claims ------------------------------ *)

\* C1: idempotent Start.  A Start whose loaded record has a nonzero pid that
\* the liveness probe finds alive returns success at that step, and the step
\* spawns no process, launches no watch goroutine and writes nothing to the
\* store.
C1_IdempotentStart ==
  [][\A c \in ConcCallers :
       (/\ At(c, "Start", "check")
        /\ call[c].rec.pid # 0
        /\ isPidAlive(call[c].rec.pid)
        /\ Steps(c))
       => /\ call'[c].pc = "idle"
          /\ call'[c].ret = "ok"
          /\ procs' = procs
          /\ watch' = watch
          /\ store' = store]_vars

\* a second Start has returned as a no-op while the one process of the
\* instance runs and the record still names it
C1_Witness ==
  \E c \in ConcCallers :
    /\ call[c].pc = "idle"
    /\ call[c].op = "Start"
    /\ call[c].branch = "noop"
    /\ call[c].ret = "ok"
    /\ store[call[c].key].pid # 0
    /\ Running(call[c].key) = {store[call[c].key].pid}
    /\ Cardinality({p \in Pids : procs[p] # "none"}) = 1

\* C2: two Start calls that run concurrently for one key never both spawn:
\* at most one process spawned for a key is running at any time.
C2_NeverBothSpawn == \A k \in Keys : Cardinality(Running(k)) <= 1

\* C3: once a Stop that signalled the live process of a started instance has
\* returned success, every GetState on the key returns state stopped, pid 0
\* (until the next Start).
C3_StoppedAfterStop ==
  [][\A c \in ConcCallers :
       (/\ call[c].op = "GetState"
        /\ Steps(c)
        /\ call'[c].pc = "idle"
        /\ stopped[call[c].key])
       => /\ call'[c].rec.state = StateStopped
          /\ call'[c].rec.pid = 0]_vars

\* the watch goroutine of p has been launched and has not yet written
Watching(p) == watch[p].pc \in {"lock", "wait", "clock", "set"}

\* C4: whenever the process of an instance has exited, the watch goroutine
\* launched for it eventually persists the terminal record, whatever the
\* processes of other instances do.
C4_ExitEventuallyPersisted ==
  \A p \in Pids :
    (Watching(p) /\ procs[p] # "running") ~> (watch[p].pc = "done")

\* C5: self-healing.  A GetState whose loaded record has a nonzero pid that
\* the liveness probe finds dead does not return the record as it is; it
\* returns state stopped with pid 0, and the record in the store right after
\* its write has state stopped and pid 0 too.
C5_SelfHealing ==
  [][\A c \in ConcCallers :
       /\ (/\ At(c, "GetState", "check")
           /\ call[c].rec.pid # 0
           /\ ~isPidAlive(call[c].rec.pid)
           /\ Steps(c))
          => /\ call'[c].pc = "clock"
             /\ call'[c].pid = call[c].rec.pid
       /\ (/\ call[c].op = "GetState"
           /\ call[c].pid # 0
           /\ Steps(c)
           /\ call'[c].pc = "idle")
          => /\ call'[c].ret = "ok"
             /\ call'[c].rec.state = StateStopped
             /\ call'[c].rec.pid = 0
             /\ store'[call[c].key] # NoRec
             /\ store'[call[c].key].state = StateStopped
             /\ store'[call[c].key].pid = 0]_vars

\* a GetState has found the recorded process reaped and has returned
C5_Witness ==
  \E c \in ConcCallers :
    /\ call[c].pc = "idle"
    /\ call[c].op = "GetState"
    /\ call[c].branch = "healed"
    /\ call[c].rec.state = StateStopped
    /\ \E p \in Pids : procs[p] = "reaped" /\ watch[p].pc \in {"clock", "set"}

\* C6: idempotent Stop.  A Stop whose loaded record has pid 0 (a key never
\* started included) or a pid that is not alive changes no process at any of
\* its steps, returns success, and the record in the store right after its
\* write has state stopped and pid 0.
C6_IdempotentStop ==
  [][\A c \in ConcCallers :
       /\ (/\ At(c, "Stop", "check")
           /\ (call[c].rec.pid = 0 \/ ~isPidAlive(call[c].rec.pid))
           /\ Steps(c))
          => /\ call'[c].pc = "clock"
             /\ call'[c].pid = 0
       /\ (/\ call[c].op = "Stop"
           /\ call[c].pc # "check"
           /\ call[c].pid = 0
           /\ Steps(c))
          => /\ procs' = procs
             /\ call'[c].pid = 0
             /\ (call'[c].pc = "idle" =>
                   /\ call'[c].ret = "ok"
                   /\ store'[call[c].key].state = StateStopped
                   /\ store'[call[c].key].pid = 0)]_vars

\* a Stop on a key with no record, and a Stop on a record whose process is
\* gone, have returned
C6_Witness ==
  \E c \in ConcCallers :
    /\ call[c].pc = "idle"
    /\ call[c].op = "Stop"
    /\ call[c].branch = "noop"
    /\ call[c].ret = "ok"
    /\ store[call[c].key].state = StateStopped
    /\ \E p \in Pids : procs[p] = "reaped" /\ watch[p].pc = "clock"

\* C7: grace-period escalation.  A Stop that finds its process alive before
\* the deadline sleeps and polls again; it force-kills only once the grace
\* period has elapsed; and when it returns after the kill it returns success,
\* the liveness check (kill(pid, 0), as isPidAlive) no longer finds the
\* process, the record is stopped, and the time from the signal to the return
\* is at least GracePeriod and at most GracePeriod + PollInterval.
C7_GraceEscalation ==
  [][\A c \in ConcCallers :
       (call[c].op = "Stop" /\ Steps(c)) =>
         /\ (/\ call[c].pc = "loop"
             /\ isPidAlive(call[c].pid)
             /\ now < call[c].start + GracePeriod)
            => call'[c].pc = "sleep"
         /\ call'[c].pc = "kill" => now >= call[c].start + GracePeriod
         /\ (call[c].pc = "set" /\ call[c].branch = "killed")
            => /\ call'[c].pc = "idle"
               /\ call'[c].ret = "ok"
               /\ procs'[call[c].pid] \notin {"running", "zombie_ok", "zombie_err"}
               /\ store'[call[c].key].state = StateStopped
               /\ now - call[c].start >= GracePeriod
               /\ now - call[c].start <= GracePeriod + PollInterval]_vars

\* C8: every record in the store with a nonzero pid has state running.
C8_PidImpliesRunning ==
  \A k \in Keys :
    (store[k] # NoRec /\ store[k].pid # 0) => store[k].state = StateRunning

\* the record carries the pid of a reaped process and a GetState is about to
\* rewrite it
C8_Witness ==
  \E c \in ConcCallers :
    /\ At(c, "GetState", "set")
    /\ store[call[c].key] # NoRec
    /\ store[call[c].key].pid # 0
    /\ store[call[c].key].pid = call[c].pid
    /\ procs[call[c].pid] = "reaped"

\* C9: every record in the store with a non-empty last_error has state
\* failed; so every write of starting, running or stopped stores an empty
\* last_error, whatever the record before.
C9_ErrorOnlyWhenFailed ==
  \A k \in Keys :
    (store[k] # NoRec /\ store[k].last_error # "") => store[k].state = StateFailed

\* a Start has loaded a failed record with its error and has written
\* starting over it
C9_Witness ==
  \E c \in ConcCallers :
    /\ At(c, "Start", "spawn")
    /\ call[c].rec.state = StateFailed
    /\ call[c].rec.last_error # ""
    /\ store[call[c].key].state = StateStarting
    /\ store[call[c].key].last_error = ""

\* C10: the updated_at values of the successive writes of a key never
\* decrease.
C10_UpdatedAtMonotonic ==
  [][\A k \in Keys :
       (store[k] # NoRec /\ store'[k] # NoRec)
       => store'[k].updated_at >= store[k].updated_at]_vars

\* C11: unknown default.  A GetState whose db.Get finds no record, or fails,
\* loads state unknown with pid 0, returns that record with no error at its
\* next step, and none of its steps writes to the store.
C11_UnknownDefault ==
  [][\A c \in ConcCallers :
       /\ (/\ At(c, "GetState", "load")
           /\ (store[call[c].key] = NoRec \/ ~dbUp)
           /\ Steps(c))
          => /\ call'[c].pc = "check"
             /\ call'[c].rec.state = StateUnknown
             /\ call'[c].rec.pid = 0
             /\ store' = store
       /\ (/\ At(c, "GetState", "check")
           /\ call[c].rec.state = StateUnknown
           /\ Steps(c))
          => /\ call'[c].pc = "idle"
             /\ call'[c].ret = "ok"
             /\ call'[c].rec.state = StateUnknown
             /\ call'[c].rec.pid = 0
             /\ store' = store]_vars

\* a GetState has returned unknown for a key whose record db.Get could not
\* deliver
C11_Witness ==
  \E c \in ConcCallers :
    /\ call[c].pc = "idle"
    /\ call[c].op = "GetState"
    /\ call[c].ret = "ok"
    /\ call[c].rec.state = StateUnknown
    /\ store[call[c].key] # NoRec
    /\ store[call[c].key].state = StateRunning

\* ---------------------------------------------------------------------
\* saveRecord followed by loadRecord on one key, for every record

States == {StateUnknown, StateStarting, StateRunning, StateStopping,
           StateStopped, StateFailed}

\* a time field is the zero time or a set time
Stamps == {0, 1}

\* the records saveRecord can be handed: updated_at is zero or an earlier
\* reading of the clock
Records(t) ==
  [state : States, pid : 0..MaxPid, started_at : Stamps, stopped_at : Stamps,
   updated_at : 0..t, last_error : {"", "spawn"}]

InitRT ==
  /\ store = [k \in Paths |-> NoRec]
  /\ procs = [p \in Pids |-> "none"]
  /\ watch = [p \in Pids |-> NoWatch]
  /\ watchLock = 0
  /\ call = [c \in ConcCallers |-> Idle]
  /\ now \in 1..MaxClock
  /\ stopped = [k \in Keys |-> FALSE]
  /\ useAbsPaths \in BOOLEAN
  /\ defaultCmd = "none"
  /\ dbUp = TRUE
  /\ cwdUp = TRUE
  /\ lost = [k \in Keys |-> FALSE]
  /\ \E path \in Paths, r \in Records(now) :
       rt = [pc |-> "save", path |-> path, r |-> r, loaded |-> InstanceRecord,
             saveErr |-> FALSE, loadErr |-> FALSE]

RTSave ==
  /\ rt.pc = "save"
  /\ store' = saveRecord(store, rt.path, rt.r, now)
  /\ rt' = [rt EXCEPT !.pc = "load", !.saveErr = saveRecordErr(rt.path)]
  /\ UNCHANGED <<procs, watch, watchLock, call, now, stopped, useAbsPaths,
                 defaultCmd, cwdUp, dbUp, lost>>

RTLoad ==
  /\ rt.pc = "load"
  /\ rt' = [rt EXCEPT !.pc = "done", !.loaded = loadRecord(store, rt.path, now),
                       !.loadErr = loadRecordErr(rt.path)]
  /\ UNCHANGED <<store, procs, watch, watchLock, call, now, stopped,
                 useAbsPaths, defaultCmd, cwdUp, dbUp, lost>>

NextRT ==
  \/ RTSave
  \/ RTLoad
  \/ Tick
  \/ CwdRemove

SpecRT == InitRT /\ [][NextRT]_vars

\* C12: round-trip persistence.  After a saveRecord(k, r) and then a
\* loadRecord(k) that both return without error, the loaded record equals r
\* in state, pid, started_at, stopped_at and last_error, and its updated_at
\* is at least r's.
C12_RoundTrip ==
  (rt.pc = "done" /\ ~rt.saveErr /\ ~rt.loadErr) =>
    /\ rt.loaded.state = rt.r.state
    /\ rt.loaded.pid = rt.r.pid
    /\ rt.loaded.started_at = rt.r.started_at
    /\ rt.loaded.stopped_at = rt.r.stopped_at
    /\ rt.loaded.last_error = rt.r.last_error
    /\ rt.loaded.updated_at >= rt.r.updated_at

\* a record with a pid, an error and set times has been saved under a
\* relative spelling at a later clock reading, and loaded back
C12_Witness ==
  /\ rt.pc = "done"
  /\ ~rt.saveErr
  /\ ~rt.loadErr
  /\ rt.path \in RelPaths
  /\ rt.r.pid # 0
  /\ rt.r.last_error # ""
  /\ rt.r.started_at # 0
  /\ rt.r.updated_at # 0
  /\ rt.loaded.updated_at > rt.r.updated_at

\* C13: command required.  A Start without a command, on a Controller
\* without a default command, for a key whose loaded record has no live pid,
\* returns the "command required" error at its check step, and no step of the
\* call spawns a process, launches a watch task or changes the store.
C13_CommandRequired ==
  [][\A c \in ConcCallers :
       /\ (/\ call'[c].op = "Start"
           /\ call'[c].cmd = "none"
           /\ defaultCmd = "none"
           /\ call[c].pc \in {"idle", "load"}
           /\ Steps(c))
          => /\ store' = store
             /\ procs' = procs
             /\ watch' = watch
       /\ (/\ At(c, "Start", "check")
           /\ call[c].cmd = "none"
           /\ defaultCmd = "none"
           /\ ~StartIsNoop(call[c].rec)
           /\ Steps(c))
          => /\ call'[c].pc = "idle"
             /\ call'[c].ret = "err"
             /\ call'[c].branch = "nocmd"
             /\ store' = store
             /\ procs' = procs
             /\ watch' = watch]_vars

\* a Start without a command has been refused for a key whose earlier process
\* has ended
C13_Witness ==
  \E c \in ConcCallers :
    /\ call[c].pc = "idle"
    /\ call[c].op = "Start"
    /\ call[c].ret = "err"
    /\ call[c].branch = "nocmd"
    /\ store[call[c].key].state \in {StateStopped, StateFailed}

\* C14: a failed starting write stops Start.  If db.Set fails when Start
\* persists the starting record, that step returns the error to the caller,
\* spawns no process and launches no watch task.
C14_StartingWriteFailure ==
  [][\A c \in ConcCallers :
       (/\ At(c, "Start", "set")
        /\ call[c].branch = "starting"
        /\ ~dbUp
        /\ Steps(c))
       => /\ call'[c].pc = "idle"
          /\ call'[c].ret = "err"
          /\ call'[c].branch = "savefailed"
          /\ store' = store
          /\ procs' = procs
          /\ watch' = watch]_vars

\* a Start has returned the error of the starting write, and no process has
\* ever been spawned
C14_Witness ==
  \E c \in ConcCallers :
    /\ call[c].pc = "idle"
    /\ call[c].op = "Start"
    /\ call[c].ret = "err"
    /\ call[c].branch = "savefailed"
    /\ \A p \in Pids : procs[p] = "none" /\ watch[p] = NoWatch

\* the record GetState returns for a record it has loaded
Returned(rec) == IF NeedsHeal(rec) THEN HealedRecord(rec, now) ELSE rec

\* the processes of an instance that have exited and are not yet reaped
Zombies(k) ==
  {p \in Pids : procs[p] \in {"zombie_ok", "zombie_err"} /\ procKey(p) = k}

\* C15: the store heals after a lost write.  When a write made after the OS
\* action (running after the spawn, the watch task's terminal record) has
\* failed and the store works again, a GetState that loads the record returns
\* one that agrees with the process: running with the pid of the live process,
\* or pid 0 and a terminal state when the process is gone.
C15_SelfHealsAfterLostWrite ==
  [][\A c \in ConcCallers :
       (/\ At(c, "GetState", "load")
        /\ dbUp
        /\ lost[call[c].key]
        /\ Steps(c))
       => /\ Running(call[c].key) # {}
             => /\ Returned(call'[c].rec).state = StateRunning
                /\ Returned(call'[c].rec).pid \in Running(call[c].key)
          /\ (Running(call[c].key) = {} /\ Zombies(call[c].key) = {})
             => /\ Returned(call'[c].rec).state \in {StateStopped, StateFailed}
                /\ Returned(call'[c].rec).pid = 0]_vars

\* C16: order of Start's writes.  Start reaches the spawn only through the
\* step that writes the starting record (pid 0, no error), and a process comes
\* to life only at the spawn step; the checks, the logs directory included,
\* write and spawn nothing, and either return or go on to that write; after a failed spawn the next write stores
\* failed, pid 0 and the error, returns the error and launches no watch task;
\* after a successful spawn the next write stores running with the new pid
\* while the call has not returned and the process has no watch task, and the
\* step after that launches the watch task and returns success.
C16_StartOrder ==
  [][\A c \in ConcCallers :
       /\ (call'[c].pc = "spawn" /\ Steps(c))
          => /\ At(c, "Start", "set")
             /\ call[c].branch = "starting"
             /\ store'[call[c].key].state = StateStarting
             /\ store'[call[c].key].pid = 0
             /\ store'[call[c].key].last_error = ""
             /\ procs' = procs
       /\ (\E p \in Pids : procs[p] = "none" /\ procs'[p] # "none")
          => \E d \in ConcCallers : At(d, "Start", "spawn")
       /\ (At(c, "Start", "check") /\ Steps(c))
          => /\ call'[c].pc \in {"idle", "clock"}
             /\ store' = store
             /\ procs' = procs
             /\ watch' = watch
       /\ (At(c, "Start", "set") /\ call[c].branch = "failed" /\ Steps(c))
          => /\ store'[call[c].key].state = StateFailed
             /\ store'[call[c].key].pid = 0
             /\ store'[call[c].key].last_error # ""
             /\ call'[c].pc = "idle"
             /\ call'[c].ret = "err"
             /\ procs' = procs
             /\ watch' = watch
       /\ (At(c, "Start", "set") /\ call[c].branch = "running" /\ Steps(c))
          => /\ store'[call[c].key].state = StateRunning
             /\ store'[call[c].key].pid = call[c].pid
             /\ call[c].pid # 0
             /\ call'[c].pc = "go"
             /\ watch'[call[c].pid] = NoWatch
       /\ (At(c, "Start", "go") /\ Steps(c))
          => /\ watch[call[c].pid] = NoWatch
             /\ watch'[call[c].pid].pc = "lock"
             /\ call'[c].pc = "idle"
             /\ call'[c].ret = "ok"]_vars

\* Start has persisted running with the new pid and has not yet returned or
\* launched the watch task, while the process has already exited
C16_Witness ==
  \E c \in ConcCallers :
    /\ At(c, "Start", "go")
    /\ store[call[c].key].state = StateRunning
    /\ store[call[c].key].pid = call[c].pid
    /\ watch[call[c].pid] = NoWatch
    /\ procs[call[c].pid] \in {"zombie_ok", "zombie_err"}

\* C17: one watch task, one terminal write.  Every spawned process whose
\* Start has returned has a watch task; a watch task is launched only by the
\* last step of a Start that spawned the process, and never a second time;
\* cmd.Wait returns only after the exit, with no error exactly for a clean
\* exit; the task then writes once: stopped with stopped_at set and no
\* last_error after a clean exit, failed with last_error set otherwise, pid 0
\* in both cases; a finished task does nothing more; a Start that returns as a
\* no-op or with an error launches no watch task.
C17_OneWatchOneWrite ==
  /\ [](\A p \in Pids :
          (procs[p] # "none" /\ Spawners(p) = {}) => watch[p].pc # "none")
  /\ [][\A p \in Pids :
          /\ (watch[p].pc = "none" /\ watch'[p] # watch[p])
             => /\ \E c \in ConcCallers :
                     /\ At(c, "Start", "go")
                     /\ call[c].pid = p
                     /\ call'[c].ret = "ok"
                /\ procs[p] # "none"
                /\ watch'[p].pc = "lock"
          /\ watch[p].pc # "none" => watch'[p].pc # "none"
          /\ (watch[p].pc = "wait" /\ watch'[p] # watch[p])
             => /\ procs[p] \in {"zombie_ok", "zombie_err"}
                /\ procs[p] = "zombie_ok" <=> watch'[p].err = ""
                /\ store' = store
          /\ (watch[p].pc \in {"lock", "clock"} /\ watch'[p] # watch[p])
             => store' = store
          /\ (watch[p].pc = "set" /\ watch'[p] # watch[p])
             => /\ procs[p] = "reaped"
                /\ watch'[p].pc = "done"
                /\ store'[watch[p].key].pid = 0
                /\ IF watch[p].err = ""
                     THEN /\ store'[watch[p].key].state = StateStopped
                          /\ store'[watch[p].key].stopped_at # 0
                          /\ store'[watch[p].key].last_error = ""
                     ELSE /\ store'[watch[p].key].state = StateFailed
                          /\ store'[watch[p].key].last_error # ""
          /\ watch[p].pc = "done" => watch'[p] = watch[p]]_vars
  /\ [][\A c \in ConcCallers :
          (/\ call[c].op = "Start"
           /\ Steps(c)
           /\ call'[c].pc = "idle"
           /\ call'[c].branch \in {"noop", "nocmd", "mkdirfailed", "savefailed",
                                   "spawnfailed"})
          => watch' = watch]_vars

\* one watch task has written failed with the wait error and another has
\* written nothing yet
C17_Witness ==
  \E p, q \in Pids :
    /\ watch[p].pc = "done"
    /\ procs[p] = "reaped"
    /\ watch[p].err # ""
    /\ watch[q].pc \in {"lock", "wait"}
    /\ procs[q] = "running"

\* ---------------------------------------------------------------------
\* the caller's goroutine keeps running and time keeps passing; nothing is
\* assumed of the processes and of the watch tasks
FairCalls ==
  /\ Spec
  /\ \A c \in SeqCallers :
       WF_vars(StartSteps(c, OneKey) \/ StopSteps(c, OneKey)
                 \/ GetStateSteps(c, OneKey))
  /\ WF_vars(Tick)

\* a call is under way, and a Start that has still to spawn has a pid left
\* to spawn with
Underway(c) ==
  /\ call[c].pc # "idle"
  /\ ~(call[c].op = "Start" /\ call[c].pid = 0 /\ FreePids = {})

\* C18: no operation waits for the child.  Every call that is under way
\* returns, whether or not the process ever exits, reacts to the graceful
\* signal or is reaped, and whether or not any watch task ever takes a step.
C18_CallsReturn ==
  \A c \in SeqCallers : Underway(c) ~> (call[c].pc = "idle")

\* a Stop has returned after the force kill while the watch task of the
\* process had not taken a single step and the process is not reaped
C18_Witness ==
  \E c \in SeqCallers, p \in Pids :
    /\ call[c].pc = "idle"
    /\ call[c].op = "Stop"
    /\ call[c].branch = "killed"
    /\ watch[p].pc = "lock"
    /\ watch[p].key = call[c].key
    /\ procs[p] \in {"zombie_ok", "zombie_err"}

\* the process spawned last is p: no later pid has been given out
SpawnedLast(p) == procs[p] # "none" /\ \A q \in Pids : q > p => procs[q] = "none"

\* C19: no stale terminal write.  With one caller issuing its operations one
\* after the other, whenever the process spawned last for a key is running
\* and the Start that spawned it has returned, the record of the key is
\* running with that process's pid.
C19_NoStaleTerminalWrite ==
  \A p \in Pids :
    (/\ SpawnedLast(p)
     /\ procs[p] = "running"
     /\ Spawners(p) = {}
     /\ watch[p].pc # "none")
    => /\ store[watch[p].key].state = StateRunning
       /\ store[watch[p].key].pid = p

\* ---------------------------------------------------------------------
\* calls under every spelling of the target path, with either key policy

\* the spellings of one instance's path
OnePaths == {"/w/a", "a", "./a"}

\* the record of another instance, stopped earlier
OtherRecord ==
  [InstanceRecord EXCEPT !.state = StateStopped, !.stopped_at = 1,
                         !.updated_at = 1]

InitPaths ==
  /\ store = [k \in Paths |-> IF k = "/w/b" THEN OtherRecord ELSE NoRec]
  /\ procs = [p \in Pids |-> "none"]
  /\ watch = [p \in Pids |-> NoWatch]
  /\ watchLock = 0
  /\ call = [c \in ConcCallers |-> Idle]
  /\ now = 1
  /\ stopped = [k \in Keys |-> FALSE]
  /\ useAbsPaths \in BOOLEAN
  /\ defaultCmd \in {"none", "run"}
  /\ dbUp = TRUE
  /\ cwdUp = TRUE
  /\ lost = [k \in Keys |-> FALSE]
  /\ rt = NoRT

\* Stop up to its first sleep: no time passes in these behaviours
StopStepsNoWait(c, K) ==
  \/ \E k \in K : StopCall(c, k)
  \/ StopLoad(c)
  \/ StopCheck(c)
  \/ \E dies \in BOOLEAN : StopSignal(c, dies)
  \/ StopLoop(c)
  \/ StopClock(c)
  \/ StopSet(c)

NextPaths ==
  \/ \E c \in SeqCallers : StartSteps(c, OnePaths)
  \/ \E c \in SeqCallers : StopStepsNoWait(c, OnePaths)
  \/ \E c \in SeqCallers : GetStateSteps(c, OnePaths)
  \/ \E p \in Pids : Watcher(p)
  \/ Exits
  \/ CwdRemove

SpecPaths == InitPaths /\ [][NextPaths]_vars

\* the state and pid a load of key k gives
Stored(k) ==
  IF store[k] = NoRec THEN [state |-> StateUnknown, pid |-> 0]
  ELSE [state |-> store[k].state, pid |-> store[k].pid]

\* C20: one key per instance.  No record is ever stored under a spelling
\* other than the absolute path, and the record of the other instance stays
\* as it was; a call that gets past its first step works on the absolute form
\* of its target path: it loads the record stored there, and its steps change
\* no record but that one; the watch task a Start launches is given the
\* absolute form of the Start's target path, and its steps change no record
\* but that one.
C20_OneKeyPerInstance ==
  /\ [](\A k \in Paths \ Keys : store[k] = NoRec)
  /\ [](store["/w/b"] = OtherRecord)
  /\ [][\A c \in ConcCallers :
          /\ (call[c].pc = "idle" /\ call'[c].pc = "load")
             => /\ call'[c].key \in Keys
                /\ call'[c].key = Abs(call'[c].target)
          /\ (call[c].pc = "load" /\ Steps(c))
             => /\ call'[c].rec.state = Stored(call[c].key).state
                /\ call'[c].rec.pid = Stored(call[c].key).pid
          /\ Steps(c)
             => \A k \in Paths : k # call[c].key => store'[k] = store[k]
          /\ (At(c, "Start", "go") /\ Steps(c))
             => watch'[call[c].pid].key = call[c].key]_vars
  /\ [][\A p \in Pids :
          (watch[p].pc # "none" /\ watch'[p] # watch[p])
          => \A k \in Paths : k # watch[p].key => store'[k] = store[k]]_vars

\* with the key policy that takes paths as given, a Start called with a
\* relative spelling has written the running record under the absolute path
C20_Witness ==
  \E c \in ConcCallers :
    /\ ~useAbsPaths
    /\ At(c, "Start", "go")
    /\ call[c].target \in RelPaths
    /\ call[c].key \in Keys
    /\ store[call[c].key].state = StateRunning
    /\ store[call[c].key].pid = call[c].pid
    /\ store[call[c].target] = NoRec

====
